---------------------------- MODULE Spec2Model ----------------------------
(***************************************************************************)
(* ttlint: a tiny text linter (src/src/main.rs).                           *)
(*                                                                         *)
(* main walks the file arguments; lint_file reads one file, lint_bytes     *)
(* reports and (in fix mode) strips a UTF-8 byte-order mark, lint_patterns *)
(* runs one Aho-Corasick pass over the bytes, writes one diagnostic per    *)
(* match and, in fix mode, assembles the rewritten buffer.                 *)
(*                                                                         *)
(* Bytes are integers 0..255, buffers are sequences of bytes.  Offsets are *)
(* 0-based as in the source; Slice(s, a, b) is the Rust slice s[a..b].     *)
(***************************************************************************)
EXTENDS Integers, Sequences, FiniteSets

(***************************************************************************)
(* Byte values named by the source.                                        *)
(***************************************************************************)
NL == 10
TAB == 9
CR == 13
SP == 32
LT == 60
EQ == 61
GT == 62
BOM0 == 239
BOM1 == 187
BOM2 == 191
LetterA == 97

BOM == <<BOM0, BOM1, BOM2>>

(***************************************************************************)
(* Bounds of the model.                                                    *)
(***************************************************************************)
MaxToks == 3
MaxLineToks == 5
MaxFiles == 2

(***************************************************************************)
(* Slices and byte-string helpers of the Rust standard library.            *)
(***************************************************************************)
Slice(s, a, b) == SubSeq(s, a + 1, b)

StartsWith(s, p) == Len(p) <= Len(s) /\ SubSeq(s, 1, Len(p)) = p

EndsWith(s, p) == Len(p) <= Len(s) /\ SubSeq(s, Len(s) - Len(p) + 1, Len(s)) = p

Min(S) == CHOOSE x \in S : \A y \in S : x <= y

(***************************************************************************)
(* The pattern list of lint_patterns: six built-in patterns, then the      *)
(* user's patterns in the order given.  Pattern id k (0-based, as          *)
(* mat.pattern() gives it) is element k + 1 of the list.                   *)
(***************************************************************************)
\* Fault variant: the merge markers without their leading newline.
BuiltinPatsUnanchored ==
    << <<LT, LT, LT, LT, LT, LT, LT>>,
       <<EQ, EQ, EQ, EQ, EQ, EQ, EQ>>,
       <<GT, GT, GT, GT, GT, GT, GT>>,
       <<SP, NL>>,
       <<TAB, NL>>,
       <<CR>> >>

BuiltinPats ==
    << <<NL, LT, LT, LT, LT, LT, LT, LT>>,
       <<NL, EQ, EQ, EQ, EQ, EQ, EQ, EQ>>,
       <<NL, GT, GT, GT, GT, GT, GT, GT>>,
       <<SP, NL>>,
       <<TAB, NL>>,
       <<CR>> >>

default_pat_count == Len(BuiltinPats)

Pats(upats) == BuiltinPats \o upats

(***************************************************************************)
(* aho_corasick::AhoCorasick::new(&pats) builds an automaton with the      *)
(* default MatchKind::Standard.  One search from offset `from` reports the *)
(* match the automaton sees first: the smallest end offset e at which some *)
(* pattern is a suffix of hay[from..e], and there the longest such         *)
(* pattern, the lowest pattern id among equal ones.                        *)
(***************************************************************************)
NoMatch == [start |-> -1, end |-> -1, pattern |-> -1]

EndingAt(hay, pats, from, e) ==
    { k \in 1..Len(pats) :
        /\ Len(pats[k]) <= e - from
        /\ Slice(hay, e - Len(pats[k]), e) = pats[k] }

TryFind(hay, pats, from) ==
    IF from > Len(hay) THEN NoMatch
    ELSE LET ends == { e \in from..Len(hay) : EndingAt(hay, pats, from, e) # {} }
         IN  IF ends = {} THEN NoMatch
             ELSE LET e == Min(ends)
                      cands == EndingAt(hay, pats, from, e)
                      best == CHOOSE k \in cands : \A j \in cands :
                                  \/ Len(pats[j]) < Len(pats[k])
                                  \/ Len(pats[j]) = Len(pats[k]) /\ k <= j
                  IN  [start |-> e - Len(pats[best]), end |-> e, pattern |-> best - 1]

(***************************************************************************)
(* FindIter::next: the iterator state is the offset the next search starts *)
(* at and the end of the last match (-1 before the first).  An empty match *)
(* at the end of the last match is skipped by searching again one byte     *)
(* further.                                                                *)
(***************************************************************************)
FindIterInit == [start |-> 0, last |-> -1]

FindIterNext(hay, pats, it) ==
    LET m == TryFind(hay, pats, it.start)
    IN  IF m # NoMatch /\ m.start = m.end /\ m.end = it.last
        THEN TryFind(hay, pats, it.start + 1)
        ELSE m

\* Fault variant: the next search starts one byte after the start of the
\* match, as an overlapping iteration would.
FindIterAdvanceOverlapping(m) == [start |-> m.start + 1, last |-> m.end]

FindIterAdvance(m) == [start |-> m.end, last |-> m.end]


(***************************************************************************)
(* lint_bytes, lines 63-67: the byte-order-mark test and the buffer handed *)
(* to lint_patterns.                                                       *)
(***************************************************************************)
\* Fault variant: the last two bytes of the mark exchanged.
HasBomSwapped(contents) == StartsWith(contents, <<BOM0, BOM2, BOM1>>)

HasBom(contents) == StartsWith(contents, BOM)

\* Fault variant: two bytes stripped instead of three.
BomStripShort(contents, bad, fix) ==
    IF bad /\ fix THEN Slice(contents, 2, Len(contents)) ELSE contents

BomStrip(contents, bad, fix) ==
    IF bad /\ fix THEN Slice(contents, 3, Len(contents)) ELSE contents

(***************************************************************************)
(* lint_patterns, lines 103-110: the reported offset of a match is its     *)
(* start, one byte further when the matched pattern begins with a newline. *)
(***************************************************************************)
Pos(pats, mat) ==
    IF StartsWith(pats[mat.pattern + 1], <<NL>>) THEN mat.start + 1 ELSE mat.start

(***************************************************************************)
(* lint_patterns, lines 113-133: the cursor update.                        *)
(***************************************************************************)
Position(offset, line, col) == [offset |-> offset, line |-> line, col |-> col]

lines_since_last_match(since) ==
    Cardinality({ j \in 1..Len(since) : since[j] = NL })

RECURSIVE chars_since_last_line(_)
chars_since_last_line(since) ==
    IF since = <<>> \/ since[Len(since)] = NL THEN 0
    ELSE 1 + chars_since_last_line(SubSeq(since, 1, Len(since) - 1))

\* Fault variant: the column restarts at every match, the cursor's column
\* is forgotten.
ColRestart(cursor, lines, chars) == chars + 1

Col(cursor, lines, chars) ==
    IF lines = 0 THEN chars + cursor.col ELSE chars + 1

NextCursor(contents, cursor, pos) ==
    LET since == Slice(contents, cursor.offset, pos)
        lines == lines_since_last_match(since)
        chars == chars_since_last_line(since)
    IN  Position(pos, cursor.line + lines, Col(cursor, lines, chars))

(***************************************************************************)
(* lint_patterns, lines 135-147: the message of a match and the diagnostic *)
(* line "path:line:col: msg", kept as a record of its four fields.  A      *)
(* message is a fixed text followed by bytes: a built-in message has no    *)
(* bytes, the message of a user pattern is the bytes of the pattern.       *)
(***************************************************************************)
FixedMsg(text) == [text |-> text, bytes |-> <<>>]

PatternMsg(pat) == [text |-> "", bytes |-> pat]

BuiltinMsg ==
    << "merge conflict start marker",
       "merge conflict separator",
       "merge conflict end marker",
       "trailing whitespace",
       "trailing whitespace",
       "carriage return" >>

MsgInRange(pat_idx, upats) ==
    pat_idx < default_pat_count \/ pat_idx - default_pat_count < Len(upats)

\* Fault variant: the user patterns indexed from the end of the list.
MsgReversed(pat_idx, upats) ==
    IF pat_idx < default_pat_count
    THEN FixedMsg(BuiltinMsg[pat_idx + 1])
    ELSE PatternMsg(upats[Len(upats) - (pat_idx - default_pat_count)])

Msg(pat_idx, upats) ==
    IF pat_idx < default_pat_count
    THEN FixedMsg(BuiltinMsg[pat_idx + 1])
    ELSE PatternMsg(upats[pat_idx - default_pat_count + 1])

Diag(path, line, col, msg) == [path |-> path, line |-> line, col |-> col, msg |-> msg]

BomDiag(path) == Diag(path, 1, 1, FixedMsg("UTF-8 byte-order mark"))

(***************************************************************************)
(* The number of bytes of the line "{}:{}:{}: {}\n" that writeln! hands to *)
(* the sink.  A path is named by its number.                               *)
(***************************************************************************)
RECURSIVE Digits(_)
Digits(n) == IF n < 10 THEN 1 ELSE 1 + Digits(n \div 10)

LineLen(d) ==
    Digits(d.path) + 1 + Digits(d.line) + 1 + Digits(d.col) + 2
        + Len(d.msg.text) + Len(d.msg.bytes) + 1

(***************************************************************************)
(* lint_patterns, lines 149-155 and 158-162: the rewrite buffer.           *)
(***************************************************************************)
\* Fault variant: the newline of a pattern that ends in one is not put back.
FixAppendNoNewline(contents, pats, buf, from, pos, pat_idx) ==
    buf \o Slice(contents, from, pos)

FixAppend(contents, pats, buf, from, pos, pat_idx) ==
    buf \o Slice(contents, from, pos)
        \o (IF EndsWith(pats[pat_idx + 1], <<NL>>) THEN <<NL>> ELSE <<>>)

\* Fault variant: the tail after the last match is not copied.
FixFinishNoTail(contents, buf, from, fixmode) ==
    IF fixmode THEN buf ELSE contents

FixFinish(contents, buf, from, fixmode) ==
    IF fixmode THEN buf \o Slice(contents, from, Len(contents)) ELSE contents

(***************************************************************************)
(* lint_patterns, lines 102-156: the body of the loop over the matches, as *)
(* a function of the locals.  A slice out of bounds or an index out of     *)
(* range panics.                                                           *)
(***************************************************************************)
ScanInit(sink) ==
    [bad |-> FALSE, cursor |-> Position(0, 1, 1), last_end |-> 0, fixed |-> <<>>,
     it |-> FindIterInit, out |-> sink, mats |-> <<>>, panic |-> FALSE]

LoopBody(path, hay, upats, fixmode, st, mat) ==
    LET pos == Pos(Pats(upats), mat)
        pat_idx == mat.pattern
        inbounds == /\ st.cursor.offset <= pos
                    /\ pos <= Len(hay)
                    /\ MsgInRange(pat_idx, upats)
                    /\ fixmode => st.last_end <= pos
    IN  IF inbounds
        THEN LET next == NextCursor(hay, st.cursor, pos)
             IN  [bad |-> TRUE,
                  cursor |-> next,
                  out |-> Append(st.out,
                                 Diag(path, next.line, next.col, Msg(pat_idx, upats))),
                  fixed |-> IF fixmode
                            THEN FixAppend(hay, Pats(upats), st.fixed, st.last_end,
                                           pos, pat_idx)
                            ELSE st.fixed,
                  last_end |-> IF fixmode THEN mat.end ELSE st.last_end,
                  it |-> FindIterAdvance(mat),
                  mats |-> Append(st.mats, mat),
                  panic |-> FALSE]
        ELSE [st EXCEPT !.panic = TRUE]

(***************************************************************************)
(* lint_patterns and lint_bytes as functions of their arguments: the loop  *)
(* run to its end, then lines 158-164 and 69-70.  The result is            *)
(* (bad, fixed), the lines written to the sink, and whether a panic ended  *)
(* the call.  The sink is one that accepts every line (a Vec, as in the    *)
(* tests); the actions below add the sink that fails.                      *)
(***************************************************************************)
RECURSIVE ScanLoop(_, _, _, _, _)
ScanLoop(path, hay, upats, fixmode, st) ==
    LET mat == FindIterNext(hay, Pats(upats), st.it)
    IN  IF st.panic \/ mat = NoMatch THEN st
        ELSE ScanLoop(path, hay, upats, fixmode,
                      LoopBody(path, hay, upats, fixmode, st, mat))

lint_patterns(path, hay, upats, sink, fixmode) ==
    LET st == ScanLoop(path, hay, upats, fixmode, ScanInit(sink))
        ok == ~st.panic /\ st.last_end <= Len(hay)
    IN  [bad |-> st.bad,
         fixed |-> IF ok THEN FixFinish(hay, st.fixed, st.last_end, fixmode) ELSE <<>>,
         out |-> st.out,
         mats |-> st.mats,
         panic |-> ~ok]

lint_bytes(path, bytes, upats, sink, fixmode) ==
    LET bom == HasBom(bytes)
        r == lint_patterns(path, BomStrip(bytes, bom, fixmode), upats,
                           IF bom THEN Append(sink, BomDiag(path)) ELSE sink, fixmode)
    IN  [r EXCEPT !.bad = bom \/ r.bad]

(***************************************************************************)
(* main, lines 27 and 29-32: bad |= lint_file(..), and the exit status.    *)
(***************************************************************************)
\* Fault variant: bad = instead of bad |=.
FoldBadLastOnly(acc, file_bad) == file_bad

FoldBad(acc, file_bad) == acc \/ file_bad

ExitStatus(b) == IF b THEN 1 ELSE 0

(***************************************************************************)
(* Inputs.  A buffer is a concatenation of a few tokens: the bytes the     *)
(* patterns are made of, whole marker texts, the byte-order mark and a     *)
(* letter.  LineInputs are longer buffers over single bytes, for matches   *)
(* that share a line or lie several lines apart.  PatSets are the user     *)
(* pattern lists: none, a duplicated pattern, a single newline, the empty  *)
(* pattern, and patterns that end and begin with a newline; the buffers    *)
(* with marker texts are linted with the first three.                      *)
(***************************************************************************)
RECURSIVE Concats(_, _)
Concats(T, n) ==
    IF n = 0 THEN {<<>>}
    ELSE LET shorter == Concats(T, n - 1)
         IN  shorter \cup { s \o t : s \in shorter, t \in T }

Tokens ==
    { <<NL>>, <<SP>>, <<TAB>>, <<CR>>, <<LetterA>>, BOM,
      <<LT, LT, LT, LT, LT, LT, LT>>,
      <<EQ, EQ, EQ, EQ, EQ, EQ, EQ>>,
      <<GT, GT, GT, GT, GT, GT, GT>> }

LineTokens == { <<NL>>, <<CR>>, <<LetterA>> }

Inputs == Concats(Tokens, MaxToks)

LineInputs == Concats(LineTokens, MaxLineToks)

FileInputs ==
    { <<>>, <<LetterA>>, <<CR, NL>>, <<LetterA, SP, NL>>, BOM \o <<LetterA>> }

PatSets ==
    { <<>>,
      << <<LetterA, LetterA>>, <<LetterA, LetterA>> >>,
      << <<NL>> >>,
      << <<>> >>,
      << <<LetterA, NL>>, <<NL, LetterA>> >> }

MarkerPatSets ==
    { <<>>,
      << <<LetterA, LetterA>>, <<LetterA, LetterA>> >>,
      << <<NL>> >> }

Paths == 1..2

RECURSIVE SeqsUpTo(_, _)
SeqsUpTo(S, n) ==
    IF n = 0 THEN {<<>>}
    ELSE LET shorter == SeqsUpTo(S, n - 1)
         IN  shorter \cup { Append(s, x) : s \in shorter, x \in S }

(***************************************************************************)
(* State.                                                                  *)
(*   files, user_pats, fix   Args (lines 10-21)                            *)
(*   fs                      the file system: path -> bytes, for the paths *)
(*                           that can be opened                            *)
(*   pc, i, main_bad, status main: position, index of the next file, bad,  *)
(*                           exit status                                   *)
(*   contents, wrote         lint_file: the bytes read; whether the file   *)
(*                           was written back                              *)
(*   bom_bad                 lint_bytes: bad after the byte-order-mark test*)
(*   scanned                 lint_patterns: its contents parameter         *)
(*   bad, it, cursor, last_end, fixed                                      *)
(*                           lint_patterns: locals (it: the find_iter      *)
(*                           iterator); after the scan, fixed is the       *)
(*                           buffer returned                               *)
(*   out, torn               the diagnostic sink (stderr): the lines it    *)
(*                           took whole, and the line it refused part-way  *)
(*                           with the number of bytes it took of it (no    *)
(*                           such line: <<>>)                              *)
(*   out0, mats, results, err                                              *)
(*                           history: the length of the sink when          *)
(*                           lint_file was entered, the matches of the     *)
(*                           current scan whose diagnostic was written,    *)
(*                           the path and the value lint_file returned for *)
(*                           each file done, and whether an error ended    *)
(*                           the run                                       *)
(***************************************************************************)
VARIABLES files, user_pats, fix, fs, pc, i, main_bad, status,
          contents, wrote, bom_bad, scanned, bad, it, cursor, last_end, fixed,
          out, torn, out0, mats, results, err

vars == <<files, user_pats, fix, fs, pc, i, main_bad, status,
          contents, wrote, bom_bad, scanned, bad, it, cursor, last_end, fixed,
          out, torn, out0, mats, results, err>>

args == <<files, user_pats, fix>>

pats == Pats(user_pats)

InitArgs ==
    \/ /\ files = <<1>>
       /\ \E S \in {{}, {1}} : fs \in [S -> Inputs]
       /\ user_pats \in MarkerPatSets
    \/ /\ files = <<1>>
       /\ \E S \in {{}, {1}} : fs \in [S -> LineInputs]
       /\ user_pats \in PatSets
    \/ /\ files \in SeqsUpTo(Paths, MaxFiles)
       /\ \E S \in SUBSET Paths : fs \in [S -> FileInputs]
       /\ user_pats \in PatSets

Init ==
    /\ InitArgs
    /\ fix \in BOOLEAN
    /\ pc = "main"
    /\ i = 1
    /\ main_bad = FALSE
    /\ status = 0
    /\ contents = <<>>
    /\ wrote = FALSE
    /\ bom_bad = FALSE
    /\ scanned = <<>>
    /\ bad = FALSE
    /\ it = FindIterInit
    /\ cursor = Position(0, 1, 1)
    /\ last_end = 0
    /\ fixed = <<>>
    /\ out = <<>>
    /\ torn = <<>>
    /\ out0 = 0
    /\ mats = <<>>
    /\ results = <<>>
    /\ err = FALSE

(***************************************************************************)
(* lint_file, line 37: the file cannot be opened.  The error leaves main   *)
(* through `?`, and a main that returns Err ends the process with status 1.*)
(***************************************************************************)
OpenFail ==
    /\ pc = "main"
    /\ i <= Len(files)
    /\ files[i] \notin DOMAIN fs
    /\ pc' = "exit"
    /\ status' = 1
    /\ err' = TRUE
    /\ UNCHANGED <<torn, args, fs, i, main_bad, contents, wrote, bom_bad, scanned, bad,
                   it, cursor, last_end, fixed, out, out0, mats, results>>

(***************************************************************************)
(* lint_file, lines 39-40: the file is opened but cannot be read (a        *)
(* directory, an I/O error).  The error ends the run like OpenFail.        *)
(***************************************************************************)
ReadFail ==
    /\ pc = "main"
    /\ i <= Len(files)
    /\ files[i] \in DOMAIN fs
    /\ pc' = "exit"
    /\ status' = 1
    /\ err' = TRUE
    /\ UNCHANGED <<torn, args, fs, i, main_bad, contents, wrote, bom_bad, scanned, bad,
                   it, cursor, last_end, fixed, out, out0, mats, results>>

(***************************************************************************)
(* lint_file lines 36-44, lint_bytes lines 63-65: the file is read and     *)
(* begins with a byte-order mark, and the sink refuses the diagnostic      *)
(* after taking a proper prefix of its bytes (writeln! hands the line over *)
(* in pieces).  The error of writeln! leaves lint_bytes, lint_file and     *)
(* main through `?`: nothing is scanned and nothing is written back.       *)
(***************************************************************************)
BomPrintFail ==
    /\ pc = "main"
    /\ i <= Len(files)
    /\ files[i] \in DOMAIN fs
    /\ HasBom(fs[files[i]])
    /\ contents' = fs[files[i]]
    /\ bom_bad' = TRUE
    /\ out0' = Len(out)
    /\ mats' = <<>>
    /\ wrote' = FALSE
    /\ \E n \in 0..(LineLen(BomDiag(files[i])) - 1) :
          torn' = <<[line |-> BomDiag(files[i]), taken |-> n]>>
    /\ pc' = "exit"
    /\ status' = 1
    /\ err' = TRUE
    /\ UNCHANGED <<args, fs, i, main_bad, scanned, bad, it, cursor, last_end,
                   fixed, out, results>>

(***************************************************************************)
(* main line 26-27, lint_file lines 36-44, lint_bytes lines 63-68,         *)
(* lint_patterns lines 86-100: read the file, test for the byte-order      *)
(* mark, and set up the scan.                                              *)
(***************************************************************************)
LintFileStart ==
    /\ pc = "main"
    /\ i <= Len(files)
    /\ files[i] \in DOMAIN fs
    /\ LET read == fs[files[i]]
           bom == HasBom(read)
       IN  /\ contents' = read
           /\ bom_bad' = bom
           /\ out' = IF bom THEN Append(out, BomDiag(files[i])) ELSE out
           /\ scanned' = BomStrip(read, bom, fix)
    /\ bad' = FALSE
    /\ fixed' = <<>>
    /\ last_end' = 0
    /\ cursor' = Position(0, 1, 1)
    /\ it' = FindIterInit
    /\ mats' = <<>>
    /\ out0' = Len(out)
    /\ wrote' = FALSE
    /\ pc' = "scan"
    /\ UNCHANGED <<torn, args, fs, i, main_bad, status, results, err>>

(***************************************************************************)
(* lint_patterns, lines 102-156: one iteration of the loop over the        *)
(* matches.                                                                *)
(***************************************************************************)
MatchStep ==
    /\ pc = "scan"
    /\ LET mat == FindIterNext(scanned, pats, it)
           st == [bad |-> bad, cursor |-> cursor, last_end |-> last_end,
                  fixed |-> fixed, it |-> it, out |-> out, mats |-> mats,
                  panic |-> FALSE]
       IN  /\ mat # NoMatch
           /\ LET new == LoopBody(files[i], scanned, user_pats, fix, st, mat)
              IN  /\ bad' = new.bad
                  /\ cursor' = new.cursor
                  /\ last_end' = new.last_end
                  /\ fixed' = new.fixed
                  /\ it' = new.it
                  /\ out' = new.out
                  /\ mats' = new.mats
                  /\ pc' = IF new.panic THEN "panic" ELSE "scan"
    /\ UNCHANGED <<torn, args, fs, i, main_bad, status, contents, wrote, bom_bad,
                   scanned, out0, results, err>>

(***************************************************************************)
(* lint_patterns, lines 102-147: the sink refuses the diagnostic of a      *)
(* match after taking a proper prefix of its bytes.  bad and the cursor    *)
(* are already updated; the error of writeln!                              *)
(* leaves lint_patterns, lint_bytes, lint_file and main through `?`, in    *)
(* the middle of the scan: the buffer is dropped, the file is not written  *)
(* back and the remaining files are not processed.                         *)
(***************************************************************************)
MatchPrintFail ==
    /\ pc = "scan"
    /\ LET mat == FindIterNext(scanned, pats, it)
           st == [bad |-> bad, cursor |-> cursor, last_end |-> last_end,
                  fixed |-> fixed, it |-> it, out |-> out, mats |-> mats,
                  panic |-> FALSE]
       IN  /\ mat # NoMatch
           /\ LET new == LoopBody(files[i], scanned, user_pats, fix, st, mat)
              IN  /\ ~ new.panic
                  /\ bad' = new.bad
                  /\ cursor' = new.cursor
                  /\ \E n \in 0..(LineLen(new.out[Len(new.out)]) - 1) :
                        torn' = <<[line |-> new.out[Len(new.out)], taken |-> n]>>
    /\ pc' = "exit"
    /\ status' = 1
    /\ err' = TRUE
    /\ UNCHANGED <<args, fs, i, main_bad, contents, wrote, bom_bad, scanned, it,
                   last_end, fixed, out, out0, mats, results>>

(***************************************************************************)
(* lint_file, lines 46-49: the buffer returned has another length than the *)
(* bytes read, and the file cannot be created for writing.  The file keeps *)
(* its bytes and the error ends the run.                                   *)
(***************************************************************************)
CreateFail ==
    /\ pc = "scan"
    /\ FindIterNext(scanned, pats, it) = NoMatch
    /\ last_end <= Len(scanned)
    /\ LET ret == FixFinish(scanned, fixed, last_end, fix)
       IN  /\ Len(ret) # Len(contents)
           /\ fix
           /\ fixed' = ret
    /\ pc' = "exit"
    /\ status' = 1
    /\ err' = TRUE
    /\ UNCHANGED <<torn, args, fs, i, main_bad, contents, wrote, bom_bad, scanned, bad,
                   it, cursor, last_end, out, out0, mats, results>>

(***************************************************************************)
(* lint_file, lines 48-51: the file is created (truncated) and write_all   *)
(* fails: the file is left with a proper prefix of the buffer, and the     *)
(* error ends the run.                                                     *)
(***************************************************************************)
WriteFail ==
    /\ pc = "scan"
    /\ FindIterNext(scanned, pats, it) = NoMatch
    /\ last_end <= Len(scanned)
    /\ LET ret == FixFinish(scanned, fixed, last_end, fix)
       IN  /\ Len(ret) # Len(contents)
           /\ fix
           /\ fixed' = ret
           /\ \E n \in 0..(Len(ret) - 1) :
                 fs' = [fs EXCEPT ![files[i]] = SubSeq(ret, 1, n)]
    /\ pc' = "exit"
    /\ status' = 1
    /\ err' = TRUE
    /\ UNCHANGED <<torn, args, i, main_bad, contents, wrote, bom_bad, scanned, bad,
                   it, cursor, last_end, out, out0, mats, results>>

(***************************************************************************)
(* lint_patterns lines 158-164, lint_bytes lines 69-70, lint_file lines    *)
(* 46-53, main line 27: the scan is over; the buffer is completed and      *)
(* returned, the file is written back when the lengths differ, and bad is  *)
(* folded into main's flag.                                                *)
(***************************************************************************)
LintFileEnd ==
    /\ pc = "scan"
    /\ FindIterNext(scanned, pats, it) = NoMatch
    /\ LET ret == FixFinish(scanned, fixed, last_end, fix)
           file_bad == bom_bad \/ bad
           differs == Len(ret) # Len(contents)
       IN  IF last_end <= Len(scanned) /\ (differs => fix)
           THEN /\ fixed' = ret
                /\ wrote' = differs
                /\ fs' = IF differs THEN [fs EXCEPT ![files[i]] = ret] ELSE fs
                /\ main_bad' = FoldBad(main_bad, file_bad)
                /\ results' = Append(results, [path |-> files[i], bad |-> file_bad])
                /\ i' = i + 1
                /\ pc' = "main"
           ELSE /\ pc' = "panic"
                /\ UNCHANGED <<fixed, wrote, fs, main_bad, results, i>>
    /\ UNCHANGED <<torn, args, status, contents, bom_bad, scanned, bad, it, cursor,
                   last_end, out, out0, mats, err>>

(***************************************************************************)
(* main, lines 29-32: every file is done; exit status 1 when bad.          *)
(***************************************************************************)
MainExit ==
    /\ pc = "main"
    /\ i > Len(files)
    /\ pc' = "exit"
    /\ status' = ExitStatus(main_bad)
    /\ UNCHANGED <<torn, args, fs, i, main_bad, contents, wrote, bom_bad, scanned, bad,
                   it, cursor, last_end, fixed, out, out0, mats, results, err>>

Next ==
    \/ OpenFail
    \/ ReadFail
    \/ BomPrintFail
    \/ LintFileStart
    \/ MatchStep
    \/ MatchPrintFail
    \/ LintFileEnd
    \/ CreateFail
    \/ WriteFail
    \/ MainExit

Spec == Init /\ [][Next]_vars

(***************************************************************************)
(*                              Properties                                 *)
(***************************************************************************)

(***************************************************************************)
(* Vocabulary of the properties, stated on the buffers themselves and not  *)
(* through the scanner.                                                    *)
(***************************************************************************)
\* lint_file has returned Ok for the file last processed: no error of the
\* file system or of the sink cut the call short.
FileDone == pc = "main" /\ i > 1

FileOut == SubSeq(out, out0 + 1, Len(out))

MatchDiag(k) == out[Len(out) - Len(mats) + k]

LastResult == results[Len(results)]

Occurs(p, buf) ==
    \E s \in 0..(Len(buf) - Len(p)) : SubSeq(buf, s + 1, s + Len(p)) = p

BeginsWithBom(buf) ==
    Len(buf) >= 3 /\ buf[1] = 239 /\ buf[2] = 187 /\ buf[3] = 191

BeginsWithNewline(p) == Len(p) >= 1 /\ p[1] = NL

NewlinesIn(buf) == Cardinality({ j \in 1..Len(buf) : buf[j] = NL })

Max(S) == CHOOSE x \in S : \A y \in S : y <= x

NaiveLine(buf, pos) == 1 + Cardinality({ j \in 1..pos : buf[j] = NL })

NaiveCol(buf, pos) ==
    LET nls == { j \in 1..pos : buf[j] = NL }
    IN  IF nls = {} THEN 1 + pos ELSE 1 + (pos - Max(nls))

ReportedPos(m) ==
    m.start + (IF BeginsWithNewline(pats[m.pattern + 1]) THEN 1 ELSE 0)

RECURSIVE WithoutBytes(_, _, _)
WithoutBytes(buf, D, j) ==
    IF j > Len(buf) THEN <<>>
    ELSE (IF j \in D THEN <<>> ELSE <<buf[j]>>) \o WithoutBytes(buf, D, j + 1)

\* C1: the line and column of every diagnostic of a match equal the numbers
\* counted from the start of the scanned buffer to the reported offset of
\* the match (its start, plus one for a pattern that begins with a newline):
\* line = 1 + newlines before it, col = 1 + bytes after the last of them.
C1_LineColFromScratch ==
    /\ pc # "panic"
    /\ \A k \in 1..Len(mats) :
          LET pos == ReportedPos(mats[k])
          IN  /\ MatchDiag(k).line = NaiveLine(scanned, pos)
              /\ MatchDiag(k).col = NaiveCol(scanned, pos)

\* Witness of C1: one scan reported two matches on the same line, two
\* consecutive matches at least two lines apart, and a match of a pattern
\* that begins with a newline.
C1_Witness ==
    /\ \E k \in 1..(Len(mats) - 1) :
          /\ MatchDiag(k + 1).line = MatchDiag(k).line
          /\ MatchDiag(k + 1).col > MatchDiag(k).col
    /\ \E k \in 1..(Len(mats) - 1) : MatchDiag(k + 1).line >= MatchDiag(k).line + 2
    /\ \E k \in 1..Len(mats) : BeginsWithNewline(pats[mats[k].pattern + 1])

DeletedBy(m) ==
    IF m.pattern \in 0..2 THEN (m.start + 2)..(m.start + 8)
    ELSE IF m.pattern \in 3..5 THEN {m.start + 1}
    ELSE (m.start + 1)..m.end

NoNewlineInUserPats ==
    \A k \in 1..Len(user_pats) : ~ Occurs(<<NL>>, user_pats[k])

\* C2: in fix mode, with user patterns free of newlines, the buffer
\* lint_patterns returns is its input without the 7 marker bytes of each
\* matched merge marker, the space or tab of each matched trailing
\* whitespace, each matched carriage return and the span of each matched
\* user pattern; every other byte is kept in order, no newline is deleted
\* and no byte is added.
C2_FixDeletesExactly ==
    (FileDone /\ fix /\ NoNewlineInUserPats) =>
        /\ fixed = WithoutBytes(scanned,
                                UNION { DeletedBy(mats[k]) : k \in 1..Len(mats) }, 1)
        /\ NewlinesIn(fixed) = NewlinesIn(scanned)
        /\ Len(fixed) <= Len(scanned)

\* Witness of C2: a fix pass that removed a merge marker and a trailing
\* whitespace or carriage return.
C2_Witness ==
    /\ FileDone /\ fix /\ NoNewlineInUserPats
    /\ \E k \in 1..Len(mats) : mats[k].pattern \in 0..2
    /\ \E k \in 1..Len(mats) : mats[k].pattern \in 3..5
    /\ fixed # scanned

MarkerTexts ==
    { <<60, 60, 60, 60, 60, 60, 60>>,
      <<61, 61, 61, 61, 61, 61, 61>>,
      <<62, 62, 62, 62, 62, 62, 62>> }

MarkersOnlyMidLine(buf) ==
    \A t \in MarkerTexts : \A s \in 0..(Len(buf) - 7) :
        SubSeq(buf, s + 1, s + 7) = t => (s = 0 \/ buf[s] # NL)

NoOtherBuiltin(buf) ==
    /\ ~ BeginsWithBom(buf)
    /\ \A j \in 1..Len(buf) : buf[j] # CR
    /\ \A j \in 1..(Len(buf) - 1) : buf[j] \in {SP, TAB} => buf[j + 1] # NL

\* C3: a merge marker is reported only where the byte before it is a
\* newline; an input whose marker texts are all mid-line or at offset 0,
\* without byte-order mark, carriage return or space/tab before a newline,
\* linted without user patterns, gives no diagnostic and bad = false.
C3_MarkersAnchored ==
    /\ \A k \in 1..Len(mats) :
          mats[k].pattern \in 0..2 =>
              /\ scanned[mats[k].start + 1] = NL
              /\ SubSeq(scanned, mats[k].start + 2, mats[k].start + 8) \in MarkerTexts
    /\ (FileDone /\ user_pats = <<>>
          /\ MarkersOnlyMidLine(contents) /\ NoOtherBuiltin(contents)) =>
              /\ FileOut = <<>> /\ torn = <<>>
              /\ LastResult.bad = FALSE

\* Witness of C3: a file holding a marker text mid-line and one at offset
\* 0 was linted without user patterns and nothing was reported.
C3_Witness ==
    /\ FileDone /\ user_pats = <<>>
    /\ MarkersOnlyMidLine(contents) /\ NoOtherBuiltin(contents)
    /\ \E t \in MarkerTexts : \E s \in 1..(Len(contents) - 7) :
          SubSeq(contents, s + 1, s + 7) = t
    /\ \E t \in MarkerTexts : SubSeq(contents, 1, 7) = t
    /\ FileOut = <<>>

NoOccurrence(buf) ==
    \A k \in 1..Len(pats) : ~ Occurs(pats[k], buf)

\* C4: an input without leading byte-order mark and without occurrence of
\* any built-in or user pattern gives bad = false, nothing written to the
\* sink and a returned buffer equal to the input, in fix mode or not.
C4_CleanInputUntouched ==
    (FileDone /\ ~ BeginsWithBom(contents) /\ NoOccurrence(contents)) =>
        /\ LastResult.bad = FALSE
        /\ FileOut = <<>> /\ torn = <<>>
        /\ fixed = contents

\* Witness of C4: a non-empty clean input went through a fix pass.
C4_Witness ==
    /\ FileDone /\ fix
    /\ ~ BeginsWithBom(contents) /\ NoOccurrence(contents)
    /\ Len(contents) >= 2
    /\ fixed = contents

\* C5: whenever lint_bytes returns, an input that begins with EF BB BF
\* gives bad = true and the diagnostic "path:1:1: UTF-8 byte-order mark"
\* before any other, in both modes; in fix mode, when the rest holds no
\* pattern occurrence, the returned buffer is the input without its first
\* 3 bytes.
C5_BomReportedAndStripped ==
    (FileDone /\ BeginsWithBom(contents)) =>
        /\ LastResult.bad = TRUE
        /\ Len(FileOut) >= 1
        /\ FileOut[1] = [path |-> LastResult.path, line |-> 1, col |-> 1,
                         msg |-> [text |-> "UTF-8 byte-order mark", bytes |-> <<>>]]
        /\ (fix /\ NoOccurrence(SubSeq(contents, 4, Len(contents)))) =>
              fixed = SubSeq(contents, 4, Len(contents))

\* Witness of C5: a fix pass over a byte-order mark followed by clean
\* bytes returned exactly those bytes.
C5_Witness ==
    /\ FileDone /\ fix /\ BeginsWithBom(contents)
    /\ Len(contents) > 3
    /\ NoOccurrence(SubSeq(contents, 4, Len(contents)))
    /\ fixed = SubSeq(contents, 4, Len(contents))
    /\ Len(FileOut) = 1

ExpectedText(idx) ==
    CASE idx = 0 -> "merge conflict start marker"
      [] idx = 1 -> "merge conflict separator"
      [] idx = 2 -> "merge conflict end marker"
      [] idx = 3 -> "trailing whitespace"
      [] idx = 4 -> "trailing whitespace"
      [] idx = 5 -> "carriage return"
      [] OTHER -> ""

\* C6: the message of a diagnostic depends only on the index of the matched
\* pattern: indices 0..5 give the built-in message of that index, an index
\* i >= 6 gives the text of user pattern i - 6, and that lookup is always in
\* range.
C6_MessageByIndex ==
    /\ pc # "panic"
    /\ \A k \in 1..Len(mats) :
          LET idx == mats[k].pattern
          IN  /\ 0 <= idx /\ idx < 6 + Len(user_pats)
              /\ idx <= 5 => MatchDiag(k).msg = [text |-> ExpectedText(idx), bytes |-> <<>>]
              /\ idx >= 6 => MatchDiag(k).msg = [text |-> "", bytes |-> user_pats[idx - 5]]

\* Witness of C6: one scan reported a built-in pattern and a user pattern
\* that is not the first of the user's list.
C6_Witness ==
    /\ \E k \in 1..Len(mats) : mats[k].pattern <= 5
    /\ \E k \in 1..Len(mats) : mats[k].pattern >= 7

\* C10: during a scan the cursor only moves forward and every slice is in
\* bounds: before each match is processed, cursor.offset <= pos <=
\* len(contents) and last_end <= pos, and last_end <= len(contents)
\* throughout, so no slice panics.
C10_SlicesInBounds ==
    /\ pc # "panic"
    /\ pc = "scan" =>
          /\ last_end <= Len(scanned)
          /\ cursor.offset <= Len(scanned)
          /\ LET m == FindIterNext(scanned, pats, it)
             IN  m # NoMatch =>
                    /\ cursor.offset <= ReportedPos(m)
                    /\ ReportedPos(m) <= Len(scanned)
                    /\ last_end <= ReportedPos(m)
                    /\ last_end <= m.start

\* Witness of C10: in fix mode, a match of a pattern that begins with a
\* newline is about to be processed right where the previous match ended.
C10_Witness ==
    /\ pc = "scan" /\ fix /\ Len(mats) >= 1
    /\ LET m == FindIterNext(scanned, pats, it)
       IN  /\ m # NoMatch
           /\ BeginsWithNewline(pats[m.pattern + 1])
           /\ m.start = last_end
           /\ last_end > 0

\* C7: lint_file overwrites the file with the returned buffer exactly when
\* fix mode is on and that buffer differs from the bytes read: never with
\* fix mode off (the assertion holds), and always when a fix changed a byte.
C7_WrittenIffDiffers ==
    /\ pc # "panic"
    /\ FileDone =>
          /\ wrote <=> (fix /\ fixed # contents)
          /\ fs[LastResult.path] = (IF fix THEN fixed ELSE contents)

SecondPass == lint_bytes(LastResult.path, fixed, user_pats, <<>>, TRUE)

SecondPassClean == ~ SecondPass.bad /\ SecondPass.fixed = fixed

\* C8 as stated: after a fix pass, a second pass over the fixed output with
\* the same patterns gives bad = false and an unchanged buffer.
C8_Idempotent ==
    (FileDone /\ fix) => SecondPassClean

\* C8 amended: after a fix pass, a second pass over the fixed output with
\* the same patterns gives bad = false and an unchanged buffer exactly when
\* the fixed output has no leading byte-order mark and no occurrence of a
\* pattern; a fix that leaves or creates an occurrence is reported again.
C8_IdempotentUnlessRecurs ==
    (FileDone /\ fix) =>
        (SecondPassClean <=> (~ BeginsWithBom(fixed) /\ NoOccurrence(fixed)))

\* Witness of C8 amended: a fix pass changed the buffer and the second pass
\* over its output is clean.
C8_Witness ==
    /\ FileDone /\ fix
    /\ Len(mats) >= 2
    /\ fixed # contents
    /\ ~ BeginsWithBom(fixed) /\ NoOccurrence(fixed)
    /\ SecondPassClean

AnyBad == \E k \in 1..Len(results) : results[k].bad

InOrder == \A k \in 1..Len(results) : results[k].path = files[k]

\* C9 as stated: main processes every file in order, a bad file never stops
\* it, and the exit status is non-zero if and only if lint_file returned
\* bad = true for some file.
C9_ExitIffBad ==
    pc = "exit" =>
        /\ InOrder
        /\ ~ err => Len(results) = Len(files)
        /\ status # 0 <=> AnyBad

\* C9 amended: main processes every file in order, a bad file never stops
\* it and only an error does; the exit status is non-zero if and only if
\* lint_file returned bad = true for some file or an error ended the run.
C9_ExitIffBadOrError ==
    pc = "exit" =>
        /\ InOrder
        /\ ~ err => Len(results) = Len(files)
        /\ err => Len(results) < Len(files)
        /\ status # 0 <=> (AnyBad \/ err)

\* Witness of C9 amended: a run over two files ended without error, the
\* first file bad and the second clean, with a non-zero status.
C9_Witness ==
    /\ pc = "exit" /\ ~ err
    /\ Len(results) = 2
    /\ results[1].bad /\ ~ results[2].bad
    /\ status # 0

============================================================================
